---- MODULE Spec2Model ----
(***************************************************************************)
(* Document processing pipeline of the Yuki invoice automation service:    *)
(* the four HTTP handlers of app/api/endpoints/documents.py (intake,       *)
(* process, validate, book) over the documents / document_validations /    *)
(* audit_logs tables of app/db/models.py, and the YukiService adapter of   *)
(* app/services/yuki_service.py.                                           *)
(*                                                                         *)
(* The database is shared by every server worker.  A handler is split at   *)
(* its database statements (query, commit, attribute refresh) and at its   *)
(* blocking external calls; handlers of different workers interleave at    *)
(* those points.  The ORM session of a handler keeps the row as it was     *)
(* loaded, and a commit writes only the attributes whose assigned value    *)
(* differs from the loaded one (all assigned attributes when the row is    *)
(* expired); a commit expires the row.                                     *)
(***************************************************************************)
EXTENDS Integers, Sequences, FiniteSets, TLC

\* ---- bounds of the model ----
MaxDocs == 2
NumWorkers == 2
MaxValidations == 2
MaxBookings == 2
MaxTokens == 2
MaxPages == 3
MaxCalls == 3

\* ---- program constants ----
max_retries == 3

NULL == "null"

DocIds == 1..MaxDocs
Workers == 1..NumWorkers

\* ProcessingStatus (models.py)
PENDING == "pending"
PROCESSING == "processing"
EXTRACTED == "extracted"
VALIDATED == "validated"
UPLOADED == "uploaded"
BOOKED == "booked"
ERROR == "error"
ProcessingStatus == {PENDING, PROCESSING, EXTRACTED, VALIDATED, UPLOADED, BOOKED, ERROR}

\* str(e) of the exceptions the handlers catch
MsgOcr == "TesseractError"
MsgNotValidated == "400: Document must be validated first"
MsgConnection == "Failed to connect to Yuki API"
MsgFault == "Fault"
MsgAttribute == "AttributeError"
MsgKey == "KeyError: 'date'"
MsgNotFound == "404: Document not found"

\* A non-null error_message
MESSAGE == "message"

\* A value of a Decimal or datetime field of ExtractedData
DECIMAL == "Decimal"
DATETIME == "datetime"

\* ExtractedData.__dict__ as produced by extract_data: one entry per
\* dataclass field; the fields that decide the handlers' behaviour are kept.
ExtractedData == [invoice_date : {NULL, DATETIME},
                  total_amount : {NULL, DECIMAL}]

\* A null JSON column, and a row the session has expired
NullData == [null |-> TRUE]
Expired == [expired |-> TRUE]

\* Confidence block returned by the OCR service
CONFIDENCE == "confidence"

\* The JSON column type serialises with json.dumps, which rejects Decimal and
\* datetime values: only a dictionary without them can be flushed.
JsonSerializable(data) ==
    \A k \in DOMAIN data : data[k] \notin {DECIMAL, DATETIME}

\* Document(...) as created by the intake handler
NewDocument ==
    [status |-> PENDING,
     error_message |-> NULL,
     extracted_data |-> NullData,
     confidence_scores |-> NULL,
     yuki_document_id |-> NULL,
     yuki_booking_id |-> NULL]

VARIABLES
    documents,      \* documents table: sequence of rows, id = index
    validations,    \* document_validations table: sequence of records
    audit_logs,     \* audit_logs table: sequence of records
    file_paths,     \* documents table: the file_path column, per document id
    files,          \* upload directory: the bytes stored under each path
    pc,             \* per worker: position of the handler it is running
    wdoc,           \* per worker: document id of the handler
    loaded,         \* per worker: row as loaded in the ORM session, or Expired
    called,         \* per worker: an external call was made by this handler
    werr,           \* per worker: str(e) of the exception being handled
    resp,           \* status code of the response the latest step sent (0: none)
    bookings,       \* external system: bookings held per external document id
    uploaded,       \* external system: ids of the documents uploaded to it
    svc,            \* a YukiService instance used directly: its clients, its
                    \* budget and how many times it has built its clients
    yuki_result,    \* what the latest direct call of the adapter returned or raised
    yuki_call,      \* the latest direct call of the adapter: what it did
    services,       \* ExtractionService instances: their attributes, per instance
    requests,       \* recognised texts waiting to be handed to extract_data
    extract_call,   \* the latest call of extract_data: instance, text, outcome
    earlier_call,   \* an earlier call of extract_data, kept for comparison
    ocr_call        \* the latest call of OCRService._process_pdf: pages, outcome

vars == <<documents, validations, audit_logs, file_paths, files, pc, wdoc, loaded, called, werr,
          resp, bookings, uploaded, svc, yuki_result, yuki_call,
          services, requests, extract_call, earlier_call, ocr_call>>

filevars == <<file_paths, files>>
dbvars == <<documents, validations, audit_logs, filevars>>
servicevars == <<services, requests, extract_call, earlier_call, ocr_call>>
extvars == <<bookings, uploaded, svc, yuki_result, yuki_call, servicevars>>

\* External document ids handed out by UploadDocument
ExtDocIds == {"Y1", "Y2"}

\* No YukiService instance has been constructed
NoService == [clients |-> NULL, max_retries |-> 0, sessions |-> 0]

\* No dictionary was handed to the call
NoData == [none |-> TRUE]

\* No call of the adapter has been made
NoCall ==
    [op |-> NULL, retries |-> 0, offered |-> <<>>, met |-> <<>>, delays |-> 0,
     data |-> NoData, lines |-> <<>>, cancel_after |-> 0]

\* extraction_service = ExtractionService() at import of the endpoints
\* module: one instance per server worker
ServiceIds == Workers

\* ExtractionService.__init__: the patterns the instance holds, by name
NewExtractionService ==
    [date_patterns |-> <<"dmy", "ymd", "dmony">>,
     amount_patterns |-> <<"amount_prefix", "amount_suffix">>,
     vat_patterns |-> <<"vat_amount", "vat_rate">>,
     iban_pattern |-> "iban"]

\* A field of ExtractedData: None, a string (its words or atoms), a Decimal
\* (its digits) or a datetime (year, month, day)
None == [kind |-> "none", v |-> <<>>]
Str(v) == [kind |-> "str", v |-> v]
Dec(v) == [kind |-> "decimal", v |-> v]
Date(v) == [kind |-> "datetime", v |-> v]

\* What a call returned, or the exception it raised
Returned(v) == [raised |-> FALSE, exception |-> NULL, value |-> v]
Raises(e) == [raised |-> TRUE, exception |-> e, value |-> None]

\* No call of extract_data, and no call of _process_pdf, has been made
NoExtraction == [text |-> <<>>, called |-> FALSE, result |-> Returned(None)]
NoOcr == [pages |-> <<>>, called |-> FALSE, result |-> Returned(None)]

\* The state at start, but for the recognised texts that wait
InitOthers ==
    /\ documents = <<>>
    /\ validations = <<>>
    /\ audit_logs = <<>>
    /\ file_paths = <<>>
    /\ files = <<>>
    /\ pc = [w \in Workers |-> "idle"]
    /\ wdoc = [w \in Workers |-> 0]
    /\ loaded = [w \in Workers |-> Expired]
    /\ called = [w \in Workers |-> FALSE]
    /\ werr = [w \in Workers |-> NULL]
    /\ resp = 0
    /\ bookings = [y \in ExtDocIds |-> 0]
    /\ uploaded = {}
    /\ svc = NoService
    /\ yuki_result = [ok |-> TRUE, value |-> NULL, error |-> NULL]
    /\ yuki_call = NoCall
    /\ services = [i \in ServiceIds |-> NewExtractionService]
    /\ extract_call = NoExtraction
    /\ earlier_call = NoExtraction
    /\ ocr_call = NoOcr

Init == InitOthers /\ requests = <<>>

\* Session.commit(): UPDATE of the attributes assigned since the load whose
\* value differs from the loaded one; every assigned attribute when the row
\* is expired.
Flush(row, snapshot, assigned) ==
    [f \in DOMAIN row |->
        IF f \in DOMAIN assigned /\ (snapshot = Expired \/ snapshot[f] # assigned[f])
        THEN assigned[f]
        ELSE row[f]]

Exists(d) == d \in 1..Len(documents)

RowFields == DOMAIN NewDocument

\* The row as the session loads it; attrs are the attributes the handler
\* goes on to read or assign, the only ones whose loaded value it uses.
Load(row, attrs) ==
    [f \in DOMAIN row |->
        IF f \in attrs THEN row[f]
        ELSE IF f = "extracted_data" THEN NullData ELSE NULL]

\* The handler answers and its session is closed
Return(w, code) ==
    /\ pc' = [pc EXCEPT ![w] = "idle"]
    /\ resp' = code
    /\ loaded' = [loaded EXCEPT ![w] = Expired]
    /\ called' = [called EXCEPT ![w] = FALSE]
    /\ werr' = [werr EXCEPT ![w] = NULL]
    /\ wdoc' = [wdoc EXCEPT ![w] = 0]

\* An exception with message msg reaches the handler's except block
Raise(w, handler, msg) ==
    /\ pc' = [pc EXCEPT ![w] = handler]
    /\ werr' = [werr EXCEPT ![w] = msg]
    /\ UNCHANGED <<wdoc, called>>

\* settings.UPLOAD_DIR, and the names and bytes of the files clients send
UPLOAD_DIR == "uploads"
Filenames == {"invoice.pdf", "receipt.pdf"}
Contents == {"bytes1", "bytes2"}

\* The file every intake of the lifecycle specifications carries: no handler
\* reads the name or the bytes of a stored file
LifecycleNames == {"invoice.pdf"}
LifecycleContents == {"bytes1"}

\* os.path.join(settings.UPLOAD_DIR, file.filename)
join(dir, name) == <<dir, name>>

\* open(path, "wb") and shutil.copyfileobj: the file at path is created, or
\* truncated and rewritten when it exists
Write(dir, path, content) ==
    [q \in DOMAIN dir \cup {path} |-> IF q = path THEN content ELSE dir[q]]

\* POST /upload: save the file under its own name, create the document record
upload_document_endpoint(filename, content) ==
    /\ Len(documents) < MaxDocs
    /\ files' = Write(files, join(UPLOAD_DIR, filename), content)
    /\ file_paths' = Append(file_paths, join(UPLOAD_DIR, filename))
    /\ documents' = Append(documents, NewDocument)
    /\ resp' = 200
    /\ UNCHANGED <<validations, audit_logs, pc, wdoc, loaded, called, werr>>
    /\ UNCHANGED extvars

\* ---- YukiService (app/services/yuki_service.py) ----

Ok(value, booked) == [ok |-> TRUE, value |-> value, error |-> NULL, booked |-> booked]
Err(msg, booked) == [ok |-> FALSE, value |-> NULL, error |-> msg, booked |-> booked]

MsgRequests == "requests.RequestException"
MsgHttp == "requests.HTTPError"

\* The attempt outcomes a request of the book handler meets: every attempt
\* succeeds, every attempt fails in transport, or the first fails otherwise
RequestAttempts == {[i \in 1..max_retries |-> o] : o \in {"ok", "transport", "other"}}

\* Outcome of one attempt to build the three SOAP clients
InitOutcomes == {"ok", "transport", "other"}

\* What a run of _init_clients gave, with the outcomes its attempts met
\* and the number of time.sleep(retry_delay) calls it made
Tried(r, met, delays) ==
    [ok |-> r.ok, value |-> r.value, error |-> r.error, booked |-> r.booked,
     met |-> met, delays |-> delays]

\* _init_clients with one attempt more than the budget: the loop runs over
\* range(max_retries + 1) and gives up when attempt == max_retries
RECURSIVE init_clients_one_more(_, _, _)
init_clients_one_more(attempts, attempt, retries) ==
    IF attempt >= retries + 1
    THEN Tried(Ok("no clients", FALSE), SubSeq(attempts, 1, attempt), attempt)
    ELSE IF attempts[attempt + 1] = "ok"
    THEN Tried(Ok("clients", FALSE), SubSeq(attempts, 1, attempt + 1), attempt)
    ELSE IF attempts[attempt + 1] = "transport"
         THEN IF attempt = retries
              THEN Tried(Err(MsgConnection, FALSE),
                         SubSeq(attempts, 1, attempt + 1), attempt)
              ELSE init_clients_one_more(attempts, attempt + 1, retries)
    ELSE Tried(Err(MsgFault, FALSE), SubSeq(attempts, 1, attempt + 1), attempt)

\* _init_clients with except Exception in place of
\* except (TransportError, RequestException): every failure is retried
RECURSIVE init_clients_retry_all(_, _, _)
init_clients_retry_all(attempts, attempt, retries) ==
    IF attempt >= retries
    THEN Tried(Ok("no clients", FALSE), SubSeq(attempts, 1, attempt), attempt)
    ELSE IF attempts[attempt + 1] = "ok"
    THEN Tried(Ok("clients", FALSE), SubSeq(attempts, 1, attempt + 1), attempt)
    ELSE IF attempt = retries - 1
    THEN Tried(Err(MsgConnection, FALSE), SubSeq(attempts, 1, attempt + 1), attempt)
    ELSE init_clients_retry_all(attempts, attempt + 1, retries)

\* _init_clients: for attempt in range(max_retries): return on success;
\* a TransportError/RequestException on the last attempt raises
\* YukiConnectionError, on an earlier one sleeps and loops; any other
\* exception propagates at once.  attempts[i] is the outcome of attempt i.
RECURSIVE init_clients_from(_, _, _)
init_clients_from(attempts, attempt, retries) ==
    IF attempt >= retries
    THEN Tried(Ok("no clients", FALSE), SubSeq(attempts, 1, attempt), attempt)
    ELSE IF attempts[attempt + 1] = "ok"
    THEN Tried(Ok("clients", FALSE), SubSeq(attempts, 1, attempt + 1), attempt)
    ELSE IF attempts[attempt + 1] = "transport"
         THEN IF attempt = retries - 1
              THEN Tried(Err(MsgConnection, FALSE),
                         SubSeq(attempts, 1, attempt + 1), attempt)
              ELSE init_clients_from(attempts, attempt + 1, retries)
    ELSE Tried(Err(MsgFault, FALSE), SubSeq(attempts, 1, attempt + 1), attempt)

init_clients(attempts, retries) == init_clients_from(attempts, 0, retries)

\* What the external system would answer to each of max_retries + 1
\* successive attempts to build the clients
AttemptSeqs == [1..(max_retries + 1) -> InitOutcomes]

\* The max_retries a caller constructs the adapter with
RetryBudgets == 1..max_retries

\* dict.get(key, default)
DictGet(dict, key, default) == IF key \in DOMAIN dict THEN dict[key] ELSE default

\* Outcome of the HTTP upload at the external system
UploadOutcomes == {"transport", "http_error"} \cup ExtDocIds

\* upload_document: the data dictionary is built first
\* (metadata.get('date', now).strftime), then the file is posted.
upload_document(metadata, ext) ==
    IF DictGet(metadata, "date", DATETIME) # DATETIME THEN Err(MsgAttribute, FALSE)
    ELSE IF ext = "transport" THEN Err(MsgRequests, FALSE)
    ELSE IF ext = "http_error" THEN Err(MsgHttp, FALSE)
    ELSE Ok(ext, FALSE)

\* Outcome of CreateBooking at the external system: "timeout_booked" is a
\* transport failure after the booking was made server-side.
BookingOutcomes == {"ok", "transport", "timeout_booked", "fault"}

\* Keys create_accounting_entry reads with data[...]
RequiredBookingKeys == {"date", "description", "gl_account", "amount"}

\* A Decimal or number equal to zero, and the results of float(...)
ZERO == "Decimal('0')"
FLOAT == "float"
FLOAT_ZERO == "0.0"

MsgType == "TypeError: float() argument"

\* float(x): a TypeError for None
Floatable(x) == x # NULL
Float(x) == IF x = ZERO THEN FLOAT_ZERO ELSE FLOAT

\* if x: None, 0 and Decimal('0') are false
Truthy(x) == x \notin {NULL, ZERO}

\* One entry of booking_data['Lines']
Line(gl_account, amount, vat_amount) ==
    [GLAccountCode |-> gl_account, Amount |-> Float(amount),
     VATAmount |-> Float(vat_amount)]

\* The booking_data dictionary create_accounting_entry builds before it
\* submits: the value is booking_data['Lines'], or the exception raised by
\* the subscript, strftime or float() that fails first.
booking_data(data, document_id) ==
    IF "date" \notin DOMAIN data THEN Err(MsgKey, FALSE)
    ELSE IF data["date"] # DATETIME THEN Err(MsgAttribute, FALSE)
    ELSE IF "description" \notin DOMAIN data THEN Err(MsgKey, FALSE)
    ELSE IF "gl_account" \notin DOMAIN data THEN Err(MsgKey, FALSE)
    ELSE IF "amount" \notin DOMAIN data THEN Err(MsgKey, FALSE)
    ELSE IF ~Floatable(data["amount"]) THEN Err(MsgType, FALSE)
    ELSE IF ~Floatable(DictGet(data, "vat_percentage", ZERO)) THEN Err(MsgType, FALSE)
    ELSE IF ~Floatable(DictGet(data, "vat_amount", ZERO)) THEN Err(MsgType, FALSE)
    ELSE LET main == Line(data["gl_account"], data["amount"],
                          DictGet(data, "vat_amount", ZERO)) IN
         IF Truthy(DictGet(data, "vat_amount", NULL))
         THEN IF "vat_gl_account" \notin DOMAIN data THEN Err(MsgKey, FALSE)
              ELSE Ok(<<main, Line(data["vat_gl_account"], data["vat_amount"], ZERO)>>,
                      FALSE)
         ELSE Ok(<<main>>, FALSE)

\* create_accounting_entry: builds booking_data and submits it with
\* CreateBooking; a TransportError becomes YukiConnectionError, any other
\* exception propagates.  The request carries no idempotency token.
create_accounting_entry(data, document_id, ext) ==
    LET b == booking_data(data, document_id) IN
    IF ~b.ok THEN b
    ELSE IF ext = "ok" THEN Ok("booking", TRUE)
    ELSE IF ext = "timeout_booked" THEN Err(MsgConnection, TRUE)
    ELSE IF ext = "transport" THEN Err(MsgConnection, FALSE)
    ELSE Err(MsgFault, FALSE)

\* The read-only queries whose handler has an except TransportError clause,
\* and those that only have except Exception: raise
ClassifiedQueries ==
    {"get_transaction_details", "get_transaction_document", "get_gl_account_scheme",
     "get_start_balance_by_gl_account", "search_documents", "get_document_binary_data"}
UnclassifiedQueries ==
    {"search_contacts", "get_administrations", "get_gl_accounts", "get_vat_codes"}
Queries == ClassifiedQueries \cup UnclassifiedQueries

MsgTransport == "zeep.exceptions.TransportError"

\* Outcome of a SOAP query at the external system
QueryOutcomes == {"ok", "transport", "fault"}

\* A read-only query: one call of the SOAP operation inside try/except
query(op, ext) ==
    IF ext = "ok" THEN Ok("result", FALSE)
    ELSE IF ext = "transport"
         THEN IF op \in ClassifiedQueries THEN Err(MsgConnection, FALSE)
              ELSE Err(MsgTransport, FALSE)
    ELSE Err(MsgFault, FALSE)

\* ---- process_document (POST /{document_id}/process) ----

\* The query; an unknown id raises 404 inside the try block, and the except
\* block then fails on document.status of None: no commit, a server error.
process_document_query(w, d) ==
    /\ pc[w] = "idle"
    /\ IF Exists(d)
       THEN /\ pc' = [pc EXCEPT ![w] = "process_begin"]
            /\ wdoc' = [wdoc EXCEPT ![w] = d]
            /\ loaded' = [loaded EXCEPT ![w] = Load(documents[d], {"status"})]
            /\ resp' = 0
            /\ UNCHANGED <<called, werr>>
       ELSE Return(w, 500)
    /\ UNCHANGED dbvars
    /\ UNCHANGED extvars

\* document.status = PROCESSING; db.commit()
process_document_begin(w) ==
    /\ pc[w] = "process_begin"
    /\ documents' = [documents EXCEPT ![wdoc[w]] =
                        Flush(@, loaded[w], [status |-> PROCESSING])]
    /\ loaded' = [loaded EXCEPT ![w] = Expired]
    /\ pc' = [pc EXCEPT ![w] = "process_refresh"]
    /\ resp' = 0
    /\ UNCHANGED <<filevars, validations, audit_logs, wdoc, called, werr>>
    /\ UNCHANGED extvars

\* document.file_path reloads the expired row; the OCR call starts
process_document_refresh(w) ==
    /\ pc[w] = "process_refresh"
    /\ loaded' = [loaded EXCEPT ![w] = Load(documents[wdoc[w]], RowFields)]
    /\ called' = [called EXCEPT ![w] = TRUE]
    /\ pc' = [pc EXCEPT ![w] = "process_ocr"]
    /\ resp' = 0
    /\ UNCHANGED <<wdoc, werr>>
    /\ UNCHANGED dbvars
    /\ UNCHANGED extvars

\* ocr_service.process_document raises, or returns a text from which
\* extract_data builds the dictionary
OcrFailure == [failed |-> TRUE]
OcrOutcomes == {OcrFailure} \cup ExtractedData

\* What the except block of process_document and upload_to_yuki assigns.
\* No code reads the content of error_message: the column holds NULL or
\* MESSAGE, the str(e) of some exception.
ErrorAssign(msg) == [status |-> ERROR, error_message |-> MESSAGE]

\* The success path of process_document assigning the status alone
ExtractedAssign_status_only(data) == [status |-> EXTRACTED]

\* What the success path of process_document assigns
ExtractedAssign(data) ==
    [extracted_data |-> data, confidence_scores |-> CONFIDENCE, status |-> EXTRACTED]

\* The OCR call returns or raises; on success the extracted dictionary is
\* committed with status EXTRACTED.  A commit whose flush fails rolls the
\* transaction back and leaves the session waiting for Session.rollback(),
\* which no handler calls: the db.commit() of the except block raises in its
\* turn (PendingRollbackError), nothing is written and the server answers
\* 500.
process_document_ocr(w, ocr) ==
    /\ pc[w] = "process_ocr"
    /\ IF ocr = OcrFailure
       THEN /\ Raise(w, "process_except", MsgOcr)
            /\ resp' = 0
            /\ UNCHANGED <<documents, loaded>>
       ELSE IF JsonSerializable(ocr)
       THEN /\ documents' = [documents EXCEPT ![wdoc[w]] =
                                Flush(@, loaded[w], ExtractedAssign(ocr))]
            /\ Return(w, 200)
       ELSE /\ UNCHANGED documents
            /\ Return(w, 500)
    /\ UNCHANGED <<filevars, validations, audit_logs>>
    /\ UNCHANGED extvars

\* An except block that marks every row instead of the handler's own:
\* db.query(Document).update({...}) without the filter on the id
process_document_except_all(w) ==
    /\ pc[w] = "process_except"
    /\ documents' = [d \in 1..Len(documents) |->
                        Flush(documents[d], Expired, ErrorAssign(werr[w]))]
    /\ Return(w, 500)
    /\ UNCHANGED <<filevars, validations, audit_logs>>
    /\ UNCHANGED extvars

\* except Exception: document.status = ERROR; document.error_message = str(e);
\* db.commit(); raise HTTPException(500)
process_document_except(w) ==
    /\ pc[w] = "process_except"
    /\ documents' = [documents EXCEPT ![wdoc[w]] =
                        Flush(@, loaded[w], ErrorAssign(werr[w]))]
    /\ Return(w, 500)
    /\ UNCHANGED <<filevars, validations, audit_logs>>
    /\ UNCHANGED extvars

\* ---- validate_document (POST /{document_id}/validate) ----

ValidationPayloads == {"v1"}

\* The query; an unknown id raises 404, which the except block turns into 500
validate_document_query(w, d) ==
    /\ pc[w] = "idle"
    /\ Len(validations) < MaxValidations
    /\ IF Exists(d)
       THEN /\ pc' = [pc EXCEPT ![w] = "validate_commit"]
            /\ wdoc' = [wdoc EXCEPT ![w] = d]
            /\ loaded' = [loaded EXCEPT ![w] = Load(documents[d], {"status"})]
            /\ resp' = 0
            /\ UNCHANGED <<called, werr>>
       ELSE Return(w, 500)
    /\ UNCHANGED dbvars
    /\ UNCHANGED extvars

\* validate_document storing the corrections in the document as well:
\* document.extracted_data = validation_data before the commit
validate_document_overwrite(w, v) ==
    /\ pc[w] = "validate_commit"
    /\ validations' = Append(validations,
                             [document_id |-> wdoc[w], validation_data |-> v])
    /\ documents' = [documents EXCEPT ![wdoc[w]] =
                        Flush(@, loaded[w], [status |-> VALIDATED,
                                             extracted_data |-> [validated |-> v]])]
    /\ Return(w, 200)
    /\ UNCHANGED <<filevars, audit_logs>>
    /\ UNCHANGED extvars

\* db.add(validation); document.status = VALIDATED; db.commit()
validate_document_commit(w, v) ==
    /\ pc[w] = "validate_commit"
    /\ validations' = Append(validations,
                             [document_id |-> wdoc[w], validation_data |-> v])
    /\ documents' = [documents EXCEPT ![wdoc[w]] =
                        Flush(@, loaded[w], [status |-> VALIDATED])]
    /\ Return(w, 200)
    /\ UNCHANGED <<filevars, audit_logs>>
    /\ UNCHANGED extvars

\* ---- upload_to_yuki (POST /{document_id}/upload-to-yuki) ----

\* The query and the status guard: the HTTPException(400) of the guard is
\* raised inside the try block, so the except block catches it.
upload_to_yuki_query(w, d) ==
    /\ pc[w] = "idle"
    /\ IF Exists(d)
       THEN /\ wdoc' = [wdoc EXCEPT ![w] = d]
            /\ loaded' = [loaded EXCEPT ![w] = Load(documents[d], RowFields)]
            /\ resp' = 0
            /\ IF documents[d].status # VALIDATED
               THEN /\ pc' = [pc EXCEPT ![w] = "book_except"]
                    /\ werr' = [werr EXCEPT ![w] = MsgNotValidated]
               ELSE /\ pc' = [pc EXCEPT ![w] = "book_init"]
                    /\ UNCHANGED werr
            /\ UNCHANGED called
       ELSE Return(w, 500)
    /\ UNCHANGED dbvars
    /\ UNCHANGED extvars

\* yuki_service = YukiService(administration_id)
upload_to_yuki_init(w, attempts) ==
    /\ pc[w] = "book_init"
    /\ LET r == init_clients(attempts, max_retries) IN
       IF r.ok
       THEN /\ pc' = [pc EXCEPT ![w] = "book_submit"]
            /\ called' = [called EXCEPT ![w] = TRUE]
            /\ UNCHANGED werr
       ELSE /\ pc' = [pc EXCEPT ![w] = "book_except"]
            /\ called' = [called EXCEPT ![w] = TRUE]
            /\ werr' = [werr EXCEPT ![w] = r.error]
    /\ resp' = 0
    /\ UNCHANGED <<wdoc, loaded>>
    /\ UNCHANGED dbvars
    /\ UNCHANGED extvars

\* The metadata dictionary the handler passes to upload_document; reading
\* document.extracted_data.get of a null column raises AttributeError.
UploadMetadata(data) == [date |-> DictGet(data, "invoice_date", DATETIME)]

\* What the success path of upload_to_yuki assigns
BookedAssign(ydoc, booking) ==
    [status |-> BOOKED, yuki_document_id |-> ydoc, yuki_booking_id |-> booking]

\* upload_document, then create_accounting_entry with the stored dictionary
BookResult(data, up, bk) ==
    IF data = NullData THEN Err(MsgAttribute, FALSE)
    ELSE LET u == upload_document(UploadMetadata(data), up) IN
         IF ~u.ok THEN u
         ELSE LET b == create_accounting_entry(data, u.value, bk) IN
              IF b.ok THEN Ok(BookedAssign(u.value, b.value), b.booked)
              ELSE b

\* The two adapter calls and, when both succeed, the commit of BOOKED
upload_to_yuki_submit(w, up, bk) ==
    /\ pc[w] = "book_submit"
    /\ LET r == BookResult(loaded[w].extracted_data, up, bk) IN
       /\ IF r.ok
          THEN /\ documents' = [documents EXCEPT ![wdoc[w]] =
                                   Flush(@, loaded[w], r.value)]
               /\ Return(w, 200)
          ELSE /\ Raise(w, "book_except", r.error)
               /\ resp' = 0
               /\ UNCHANGED <<documents, loaded>>
       /\ IF r.booked
          THEN /\ bookings[up] < MaxBookings
               /\ bookings' = [bookings EXCEPT ![up] = @ + 1]
          ELSE UNCHANGED bookings
    /\ UNCHANGED <<filevars, validations, audit_logs, uploaded, svc, yuki_result, yuki_call>>
    /\ UNCHANGED servicevars

\* except Exception: document.status = ERROR; document.error_message = str(e);
\* db.commit(); raise HTTPException(500)
upload_to_yuki_except(w) ==
    /\ pc[w] = "book_except"
    /\ documents' = [documents EXCEPT ![wdoc[w]] =
                        Flush(@, loaded[w], ErrorAssign(werr[w]))]
    /\ Return(w, 500)
    /\ UNCHANGED <<filevars, validations, audit_logs>>
    /\ UNCHANGED extvars

\* ---- YukiService used directly ----

\* The optional entries of a booking dictionary
VatAmounts == {NULL, ZERO, DECIMAL}

\* Dictionaries a caller hands to create_accounting_entry: the four required
\* entries, with or without the VAT entries, and the stored ExtractedData
BaseBooking ==
    [date |-> DATETIME, description |-> "invoice", gl_account |-> "4000",
     amount |-> DECIMAL]
BookingDicts ==
    {BaseBooking}
    \cup {BaseBooking @@ [vat_amount |-> v] : v \in VatAmounts}
    \cup {BaseBooking @@ [vat_amount |-> v, vat_gl_account |-> "1500"] : v \in VatAmounts}
    \cup {BaseBooking @@ [vat_amount |-> v, vat_gl_account |-> "1500",
                          vat_percentage |-> DECIMAL] : v \in VatAmounts}
    \cup ExtractedData

\* Metadata dictionaries a caller hands to upload_document
MetadataDicts == {[name |-> "invoice.pdf"], [date |-> DATETIME], [date |-> NULL]}

\* What a call of the adapter gave its caller: the value or the exception
Result(r) == [ok |-> r.ok, value |-> r.value, error |-> r.error]

\* How the external system answered an attempt
AttemptClass(ext) ==
    IF ext \in {"transport", "timeout_booked"} THEN "transport"
    ELSE IF ext \in {"http_error", "fault", "other"} THEN "other"
    ELSE "ok"

\* Failures raised before any request is sent
LocalFailures == {MsgKey, MsgAttribute, MsgType}

\* The record of a call that makes one request, unless it failed locally
OneRequest(op, r, ext, data, lines) ==
    [op |-> op, retries |-> svc.max_retries, offered |-> <<AttemptClass(ext)>>,
     met |-> IF r.error \in LocalFailures THEN <<>> ELSE <<AttemptClass(ext)>>,
     delays |-> 0, data |-> data,
     lines |-> IF r.error \in LocalFailures THEN <<>> ELSE lines,
     cancel_after |-> 0]

\* When the operator asks for the work to be abandoned: after this many
\* attempts of the construction have failed, 0 for never
CancelRequests == 0..max_retries

\* YukiService(administration_id, max_retries=retries).  Nothing in
\* __init__ or _init_clients reads a cancellation request: cancel_after is
\* recorded with the call and has no part in what the call does.
YukiService_init(attempts, retries, cancel_after) ==
    /\ LET r == init_clients(attempts, retries) IN
       /\ svc' = IF r.ok
                 THEN [clients |-> r.value, max_retries |-> retries, sessions |-> 1]
                 ELSE NoService
       /\ yuki_result' = Result(r)
       /\ yuki_call' = [op |-> "init", retries |-> retries, offered |-> attempts,
                        met |-> r.met, delays |-> r.delays, data |-> NoData,
                        lines |-> <<>>, cancel_after |-> cancel_after]
    /\ UNCHANGED <<pc, wdoc, loaded, called, werr, resp, bookings, uploaded>>
    /\ UNCHANGED dbvars
    /\ UNCHANGED servicevars

\* yuki_service.upload_document(file_path, metadata)
YukiService_upload_document(metadata, up) ==
    /\ svc # NoService
    /\ LET r == upload_document(metadata, up) IN
       /\ uploaded' = IF r.ok THEN uploaded \cup {r.value} ELSE uploaded
       /\ yuki_result' = Result(r)
       /\ yuki_call' = OneRequest("upload_document", r, up, NoData, <<>>)
    /\ UNCHANGED <<pc, wdoc, loaded, called, werr, resp, bookings, svc>>
    /\ UNCHANGED dbvars
    /\ UNCHANGED servicevars

\* yuki_service.create_accounting_entry(data, document_id)
YukiService_create_accounting_entry(data, y, bk) ==
    /\ svc # NoService
    /\ y \in uploaded
    /\ LET r == create_accounting_entry(data, y, bk)
           b == booking_data(data, y) IN
       /\ IF r.booked
          THEN /\ bookings[y] < MaxBookings
               /\ bookings' = [bookings EXCEPT ![y] = @ + 1]
          ELSE UNCHANGED bookings
       /\ yuki_result' = Result(r)
       /\ yuki_call' = OneRequest("create_accounting_entry", r, bk, data,
                                  IF b.ok THEN b.value ELSE <<>>)
    /\ UNCHANGED <<pc, wdoc, loaded, called, werr, resp, svc, uploaded>>
    /\ UNCHANGED dbvars
    /\ UNCHANGED servicevars

\* yuki_service.get_transaction_details(...), ..., get_vat_codes()
YukiService_query(op, ext) ==
    /\ svc # NoService
    /\ LET r == query(op, ext) IN
       /\ yuki_result' = Result(r)
       /\ yuki_call' = OneRequest(op, r, ext, NoData, <<>>)
    /\ UNCHANGED <<pc, wdoc, loaded, called, werr, resp, svc, uploaded, bookings>>
    /\ UNCHANGED dbvars
    /\ UNCHANGED servicevars

\* ---- ExtractionService (app/services/extraction_service.py) ----

\* A recognised text is a sequence of words, and a word is a sequence of
\* atoms: a digit, a punctuation character, or a run of letters.  Two
\* successive words are separated by one space; the word NL is a line break.
Digits == {"0", "1", "2", "3", "4", "5", "6", "7", "8", "9"}
Punctuation == {",", ".", "-", "/", "%", ":", "=", "#", " "}
NL == <<"\n">>
IsLetters(a) == a \notin Digits \cup Punctuation \cup {"\n"}

DigitValue(c) ==
    CASE c = "0" -> 0 [] c = "1" -> 1 [] c = "2" -> 2 [] c = "3" -> 3
      [] c = "4" -> 4 [] c = "5" -> 5 [] c = "6" -> 6 [] c = "7" -> 7
      [] c = "8" -> 8 [] c = "9" -> 9

\* int(...) of the n digits of word from index i
RECURSIVE Number(_, _, _)
Number(word, i, n) ==
    IF n = 0 THEN 0
    ELSE 10 * Number(word, i, n - 1) + DigitValue(word[i + n - 1])

Least(S) == CHOOSE x \in S : \A y \in S : x <= y

\* The words the recognised texts are made of
Vocabulary ==
    {NL, <<"Totaal">>, <<"BTW">>, <<"Invoice">>, <<"BV">>,
     <<"1", "2", "1", ",", "0", "0">>,
     <<"2", "1", "%">>,
     <<"0", "1", "-", "0", "2", "-", "2", "0", "2", "4">>,
     <<"3", "1", "-", "0", "2", "-", "2", "0", "2", "4">>,
     <<"NL", "9", "1", "ABNA", "0", "4", "1", "7">>}

\* Longer texts: a date in each of the other shapes, an invoice number
\* after '#', a description line, totals written 1.234,56, 1234.56 and 12,5,6,
\* and an invoice of four lines: number, total, VAT amount, percentage
ExampleTexts ==
    {<< <<"2", "0", "2", "4", "-", "0", "2", "-", "0", "1">> >>,
     << <<"0", "1", "/", "0", "2", "/", "2", "0", "2", "4">> >>,
     << <<"0", "1">>, <<"March">>, <<"2", "0", "2", "4">> >>,
     << <<"0", "1">>, <<"Maart">>, <<"2", "0", "2", "4">> >>,
     << <<"Invoice">>, <<"#">>, <<"INV", "-", "0", "0", "1">> >>,
     << <<"Consultancy">>, <<"services">> >>,
     << <<"Totaal">>, <<"incl", ".">>, <<"BTW">>, <<":">>, <<"EUR">>,
        <<"1", "2", "1", ",", "0", "0">> >>,
     << <<"Totaal">>, <<"1", ".", "2", "3", "4", ",", "5", "6">> >>,
     << <<"Totaal">>, <<"1", "2", "3", "4", ".", "5", "6">> >>,
     << <<"Totaal">>, <<"1", "2", ",", "5", ",", "6">> >>,
     << <<"Factuur">>, <<"nummer">>, <<"INV", "-", "0", "0", "1">>, NL,
        <<"Totaal">>, <<"1", "2", "1", ",", "0", "0">>, NL,
        <<"BTW">>, <<"2", "1", ",", "0", "0">>, NL,
        <<"2", "1", "%">> >>}

Texts == UNION {[1..n -> Vocabulary] : n \in 0..MaxTokens} \cup ExampleTexts

\* \s*: the first index at or after j whose word is not a line break
RECURSIVE SkipSpace(_, _)
SkipSpace(text, j) ==
    IF j <= Len(text) /\ text[j] = NL THEN SkipSpace(text, j + 1) ELSE j

\* The number of successive digits of word from index i
RECURSIVE DigitRun(_, _)
DigitRun(word, i) ==
    IF i <= Len(word) /\ word[i] \in Digits THEN 1 + DigitRun(word, i + 1) ELSE 0

\* (\d+[.,]\d{2}) at the start of word: the captured atoms, <<>> for no match
CaptureAmount(word) ==
    LET k == DigitRun(word, 1) IN
    IF /\ k >= 1
       /\ Len(word) >= k + 3
       /\ word[k + 1] \in {".", ","}
       /\ word[k + 2] \in Digits
       /\ word[k + 3] \in Digits
    THEN SubSeq(word, 1, k + 3)
    ELSE <<>>

\* (\d+[.,]?\d*)% at the start of word
CapturePercent(word) ==
    LET k == DigitRun(word, 1)
        sep == IF k + 1 <= Len(word) /\ word[k + 1] \in {".", ","} THEN 1 ELSE 0
        m == DigitRun(word, k + sep + 1) IN
    IF k >= 1 /\ k + sep + m + 1 <= Len(word) /\ word[k + sep + m + 1] = "%"
    THEN SubSeq(word, 1, k + sep + m)
    ELSE <<>>

\* ([A-Z0-9-]+) under re.IGNORECASE at the start of word
RECURSIVE CodeRun(_, _)
CodeRun(word, i) ==
    IF i <= Len(word) /\ (IsLetters(word[i]) \/ word[i] \in Digits \/ word[i] = "-")
    THEN 1 + CodeRun(word, i + 1)
    ELSE 0
CaptureCode(word) == SubSeq(word, 1, CodeRun(word, 1))

Capture(kind, word) ==
    CASE kind = "amount" -> CaptureAmount(word)
      [] kind = "percent" -> CapturePercent(word)
      [] kind = "code" -> CaptureCode(word)

\* The words of phrase stand in text from index j
PhraseAt(text, j, phrase) ==
    /\ j + Len(phrase) - 1 <= Len(text)
    /\ SubSeq(text, j, j + Len(phrase) - 1) = phrase

\* A group of a pattern: alternative phrases, optional ((?:...)?) or not
Optional(phrases) == [phrases |-> phrases, optional |-> TRUE]
Required(phrases) == [phrases |-> phrases, optional |-> FALSE]

\* The part of a pattern after its label: the groups, each after \s*, then
\* \s* and the capturing group.  A group that is present is taken when the
\* rest then matches; an optional group is skipped otherwise (backtracking).
RECURSIVE MatchRest(_, _, _, _)
MatchRest(text, j, groups, kind) ==
    LET j0 == SkipSpace(text, j) IN
    IF groups = <<>>
    THEN IF j0 <= Len(text) THEN Capture(kind, text[j0]) ELSE <<>>
    ELSE LET g == Head(groups)
             hits == {ph \in g.phrases : PhraseAt(text, j0, ph)}
             taken == IF hits = {} THEN <<>>
                      ELSE MatchRest(text, j0 + Len(CHOOSE ph \in hits : TRUE),
                                     Tail(groups), kind)
         IN IF taken # <<>> THEN taken
            ELSE IF g.optional THEN MatchRest(text, j0, Tail(groups), kind)
            ELSE <<>>

\* The label words under re.IGNORECASE, and the words of the optional groups
TotalLabels == {<<"Totaal">>, <<"Total">>, <<"TOTAAL">>, <<"TOTAL">>, <<"totaal">>, <<"total">>}
VatLabels == {<<"BTW">>, <<"VAT">>, <<"btw">>, <<"vat">>, <<"Btw">>, <<"Vat">>}
InvoiceLabels == {<<"Factuur">>, <<"Invoice">>, <<"FACTUUR">>, <<"INVOICE">>,
                  <<"factuur">>, <<"invoice">>}
One(words) == {<<w>> : w \in words}
AmountQualifiers == One({<<"bedrag">>, <<"amount">>, <<"Bedrag">>, <<"Amount">>})
RateQualifiers == One({<<"percentage">>, <<"rate">>, <<"Percentage">>, <<"Rate">>})
NumberQualifiers == One({<<"nummer">>, <<"number">>, <<"Nummer">>, <<"Number">>})
Colons == One({<<":">>, <<"=">>})
Currency == One({<<"EUR">>, <<"eur">>})
InclVat ==
    {<<i, v>> : i \in {<<"incl", ".">>, <<"incl">>, <<"Incl", ".">>, <<"Incl">>},
                v \in {<<"BTW">>, <<"VAT">>, <<"btw">>, <<"vat">>}}

\* The labelled patterns of the service, by name
Pattern(name) ==
    CASE name = "total_amount" ->
           [labels |-> TotalLabels, kind |-> "amount",
            groups |-> <<Optional(AmountQualifiers), Optional(Colons), Optional(Currency)>>]
      [] name = "total_incl" ->
           [labels |-> TotalLabels, kind |-> "amount",
            groups |-> <<Optional(InclVat), Optional(Colons), Optional(Currency)>>]
      [] name = "vat_amount" ->
           [labels |-> VatLabels, kind |-> "amount",
            groups |-> <<Optional(AmountQualifiers), Optional(Colons), Optional(Currency)>>]
      [] name = "vat_rate" ->
           [labels |-> VatLabels, kind |-> "percent",
            groups |-> <<Optional(RateQualifiers), Optional(Colons)>>]
      [] name = "invoice_number" ->
           [labels |-> InvoiceLabels, kind |-> "code",
            groups |-> <<Optional(NumberQualifiers), Optional(Colons)>>]
      [] name = "invoice_hash" ->
           [labels |-> InvoiceLabels, kind |-> "code",
            groups |-> <<Required(One({<<"#">>}))>>]

\* re.search(pattern, text).group(1): the capture at the leftmost label from
\* which the pattern matches, <<>> when there is none
Search(name, text) ==
    LET p == Pattern(name)
        hits == {i \in 1..Len(text) :
                    /\ text[i] \in p.labels
                    /\ MatchRest(text, i + 1, p.groups, p.kind) # <<>>} IN
    IF hits = {} THEN <<>>
    ELSE MatchRest(text, Least(hits) + 1, p.groups, p.kind)

\* ---- dates ----

AllDigits(word, i, n) == \A k \in i..(i + n - 1) : word[k] \in Digits
IsSeparator(a) == a \in {"-", "/"}

\* \d{2}[-/]\d{2}[-/]\d{4} and \d{4}[-/]\d{2}[-/]\d{2} at offset o of word
DateAt(name, word, o) ==
    /\ o + 9 <= Len(word)
    /\ IF name = "dmy"
       THEN /\ AllDigits(word, o, 2) /\ IsSeparator(word[o + 2])
            /\ AllDigits(word, o + 3, 2) /\ IsSeparator(word[o + 5])
            /\ AllDigits(word, o + 6, 4)
       ELSE /\ name = "ymd"
            /\ AllDigits(word, o, 4) /\ IsSeparator(word[o + 4])
            /\ AllDigits(word, o + 5, 2) /\ IsSeparator(word[o + 7])
            /\ AllDigits(word, o + 8, 2)

\* \d{2}\s+[A-Za-z]+\s+\d{4} from word i: a word ending in two digits, a
\* word of letters, a word starting with four digits
MonthDateAt(text, i) ==
    LET j == SkipSpace(text, i + 1)
        k == SkipSpace(text, j + 1) IN
    /\ k <= Len(text)
    /\ text[i] # NL
    /\ Len(text[i]) >= 2 /\ AllDigits(text[i], Len(text[i]) - 1, 2)
    /\ Len(text[j]) = 1 /\ IsLetters(text[j][1])
    /\ Len(text[k]) >= 4 /\ AllDigits(text[k], 1, 4)

\* re.search(pattern, text).group(0) for a date pattern: the leftmost match
FindDate(name, text) ==
    IF name = "dmony"
    THEN LET hits == {i \in 1..Len(text) : MonthDateAt(text, i)} IN
         IF hits = {} THEN <<>>
         ELSE LET i == Least(hits)
                  j == SkipSpace(text, i + 1)
                  k == SkipSpace(text, j + 1) IN
              SubSeq(text[i], Len(text[i]) - 1, Len(text[i]))
              \o <<" ">> \o text[j] \o <<" ">> \o SubSeq(text[k], 1, 4)
    ELSE LET words == {i \in 1..Len(text) :
                          \E o \in 1..Len(text[i]) : DateAt(name, text[i], o)} IN
         IF words = {} THEN <<>>
         ELSE LET i == Least(words)
                  o == Least({x \in 1..Len(text[i]) : DateAt(name, text[i], x)}) IN
              SubSeq(text[i], o, o + 9)

\* The month names %B accepts (the C locale), with their numbers
MonthNumber(name) ==
    CASE name \in {"January", "january"} -> 1
      [] name \in {"February", "february"} -> 2
      [] name \in {"March", "march"} -> 3
      [] name \in {"April", "april"} -> 4
      [] name \in {"May", "may"} -> 5
      [] name \in {"June", "june"} -> 6
      [] name \in {"July", "july"} -> 7
      [] name \in {"August", "august"} -> 8
      [] name \in {"September", "september"} -> 9
      [] name \in {"October", "october"} -> 10
      [] name \in {"November", "november"} -> 11
      [] name \in {"December", "december"} -> 12
      [] OTHER -> 0

IsLeap(year) == year % 4 = 0 /\ (year % 100 # 0 \/ year % 400 = 0)
DaysIn(month, year) ==
    IF month = 2 THEN (IF IsLeap(year) THEN 29 ELSE 28)
    ELSE IF month \in {4, 6, 9, 11} THEN 30
    ELSE 31

\* datetime(year, month, day), ValueError for a date that does not exist
MakeDate(year, month, day) ==
    IF year >= 1 /\ month \in 1..12 /\ day >= 1 /\ day <= DaysIn(month, year)
    THEN Returned(Date(<<year, month, day>>))
    ELSE Raises("ValueError")

\* datetime.strptime(date_str, fmt) for the three formats of _extract_date,
\* on a date_str matched by one of the date patterns
strptime(s, fmt) ==
    IF fmt = "%d-%m-%Y"
    THEN IF Len(s) = 10 /\ DateAt("dmy", s, 1) /\ s[3] = "-" /\ s[6] = "-"
         THEN MakeDate(Number(s, 7, 4), Number(s, 4, 2), Number(s, 1, 2))
         ELSE Raises("ValueError")
    ELSE IF fmt = "%Y-%m-%d"
    THEN IF Len(s) = 10 /\ DateAt("ymd", s, 1) /\ s[5] = "-" /\ s[8] = "-"
         THEN MakeDate(Number(s, 1, 4), Number(s, 6, 2), Number(s, 9, 2))
         ELSE Raises("ValueError")
    ELSE IF Len(s) = 9 /\ s[3] = " " /\ IsLetters(s[4]) /\ MonthNumber(s[4]) # 0
         THEN MakeDate(Number(s, 6, 4), MonthNumber(s[4]), Number(s, 1, 2))
         ELSE Raises("ValueError")

DateFormats == <<"%d-%m-%Y", "%Y-%m-%d", "%d %B %Y">>

\* for fmt in [...]: try: return strptime(date_str, fmt); except ValueError:
\* continue.  None when no format parses.
RECURSIVE TryFormats(_, _)
TryFormats(date_str, fmts) ==
    IF fmts = <<>> THEN Returned(None)
    ELSE LET r == strptime(date_str, Head(fmts)) IN
         IF r.raised /\ r.exception = "ValueError"
         THEN TryFormats(date_str, Tail(fmts))
         ELSE r

\* The loop of _extract_date without its except clauses: the first
\* ValueError of strptime leaves the method
RECURSIVE first_date_uncaught(_, _)
first_date_uncaught(patterns, text) ==
    IF patterns = <<>> THEN Returned(None)
    ELSE LET date_str == FindDate(Head(patterns), text) IN
         IF date_str = <<>> THEN first_date_uncaught(Tail(patterns), text)
         ELSE strptime(date_str, Head(DateFormats))

extract_date_uncaught(self, text) == first_date_uncaught(self.date_patterns, text)

\* _extract_date: for pattern in self.date_patterns: on a match try the
\* formats; an exception (except Exception: continue) or no parsing format
\* goes on to the next pattern
RECURSIVE first_date(_, _)
first_date(patterns, text) ==
    IF patterns = <<>> THEN Returned(None)
    ELSE LET date_str == FindDate(Head(patterns), text) IN
         IF date_str = <<>> THEN first_date(Tail(patterns), text)
         ELSE LET r == TryFormats(date_str, DateFormats) IN
              IF r.raised \/ r.value = None THEN first_date(Tail(patterns), text)
              ELSE r

extract_date(self, text) == first_date(self.date_patterns, text)

\* ---- amounts ----

\* str.replace(old, new) on the atoms of a string
Replace(s, old, new) == [i \in 1..Len(s) |-> IF s[i] = old THEN new ELSE s[i]]

\* Decimal(s): digits with at most one '.', InvalidOperation otherwise
Decimal(s) ==
    LET k == DigitRun(s, 1) IN
    IF \/ (k >= 1 /\ k = Len(s))
       \/ (k >= 1 /\ k < Len(s) /\ s[k + 1] = "." /\ k + 1 + DigitRun(s, k + 2) = Len(s))
       \/ (k = 0 /\ Len(s) >= 2 /\ s[1] = "." /\ 1 + DigitRun(s, 2) = Len(s))
    THEN Returned(Dec(s))
    ELSE Raises("InvalidOperation")

\* for pattern in patterns: on a match, try: return Decimal(...);
\* except: continue
RECURSIVE first_decimal(_, _)
first_decimal(patterns, text) ==
    IF patterns = <<>> THEN Returned(None)
    ELSE LET m == Search(Head(patterns), text) IN
         IF m = <<>> THEN first_decimal(Tail(patterns), text)
         ELSE LET r == Decimal(Replace(m, ",", ".")) IN
              IF r.raised THEN first_decimal(Tail(patterns), text) ELSE r

extract_total_amount(text) == first_decimal(<<"total_amount", "total_incl">>, text)

extract_vat_amount(self, text) == first_decimal(self.vat_patterns, text)

extract_vat_percentage(text) ==
    LET m == Search("vat_rate", text) IN
    IF m = <<>> THEN Returned(None)
    ELSE LET r == Decimal(Replace(m, ",", ".")) IN
         IF r.raised THEN Returned(None) ELSE r

\* ---- lines ----

\* text.split('\n')
RECURSIVE SplitLines(_)
SplitLines(text) ==
    LET breaks == {i \in 1..Len(text) : text[i] = NL} IN
    IF breaks = {} THEN <<text>>
    ELSE LET i == Least(breaks) IN
         <<SubSeq(text, 1, i - 1)>> \o SplitLines(SubSeq(text, i + 1, Len(text)))

\* The atoms of a line, as a set
AtomsOf(line) == UNION {{line[i][k] : k \in 1..Len(line[i])} : i \in 1..Len(line)}

\* len(...) of a word and of a stripped line
RECURSIVE WordLen(_)
WordLen(word) == IF word = <<>> THEN 0 ELSE Len(Head(word)) + WordLen(Tail(word))
RECURSIVE LineLen(_)
LineLen(line) ==
    IF line = <<>> THEN 0
    ELSE IF Len(line) = 1 THEN WordLen(line[1])
    ELSE WordLen(line[1]) + 1 + LineLen(Tail(line))

\* str.isdigit() of a stripped line
IsDigitLine(line) ==
    Len(line) = 1 /\ line[1] # <<>> /\ \A k \in 1..Len(line[1]) : line[1][k] \in Digits

\* The runs of letters that, in upper case, contain BV, NV, LLC or INC, and
\* those that, in lower case, contain total, totaal, btw, vat, factuur or
\* invoice
IndicatorRuns == {"BV", "NV", "LLC", "INC", "Invoice", "INVOICE", "invoice", "INV"}
KeywordRuns == {"Totaal", "Total", "TOTAAL", "TOTAL", "totaal", "total", "BTW", "btw",
                "Btw", "VAT", "vat", "Vat", "Factuur", "FACTUUR", "factuur",
                "Invoice", "INVOICE", "invoice"}

\* _extract_vendor_name: the first of the first five lines with a company
\* indicator in it
extract_vendor_name(text) ==
    LET lines == SplitLines(text)
        hits == {i \in 1..Len(lines) : i <= 5 /\ AtomsOf(lines[i]) \cap IndicatorRuns # {}} IN
    IF hits = {} THEN Returned(None) ELSE Returned(Str(lines[Least(hits)]))

\* _extract_invoice_number: the capture of the first pattern that matches
extract_invoice_number(text) ==
    LET first == Search("invoice_number", text)
        second == Search("invoice_hash", text) IN
    IF first # <<>> THEN Returned(Str(first))
    ELSE IF second # <<>> THEN Returned(Str(second))
    ELSE Returned(None)

\* The runs of upper-case letters, and the last two letters of one
UpperRuns == {"NL", "BV", "NV", "ABNA", "INV", "BTW", "VAT", "EUR", "TOTAAL", "TOTAL", "INC",
              "LLC", "FACTUUR", "INVOICE"}
LastTwo(run) ==
    CASE run = "ABNA" -> "NA" [] run = "INV" -> "NV" [] run = "BTW" -> "TW"
      [] run = "VAT" -> "AT" [] run = "EUR" -> "UR" [] run = "TOTAAL" -> "AL"
      [] run = "TOTAL" -> "AL" [] run = "INC" -> "NC" [] run = "LLC" -> "LC"
      [] run = "FACTUUR" -> "UR" [] run = "INVOICE" -> "CE"
      [] OTHER -> run

\* The number of successive atoms of [A-Z0-9] of word from index i
RECURSIVE UpperRun(_, _)
UpperRun(word, i) ==
    IF i <= Len(word) /\ (word[i] \in Digits \/ word[i] \in UpperRuns)
    THEN 1 + UpperRun(word, i + 1)
    ELSE 0

\* [A-Z]{2}\d{2}[A-Z0-9]{1,30} from atom o of word: two upper-case letters,
\* two digits, at least one more digit or upper-case letter
IbanAt(word, o) ==
    /\ o + 3 <= Len(word)
    /\ word[o] \in UpperRuns
    /\ AllDigits(word, o + 1, 2)
    /\ UpperRun(word, o + 3) >= 1

\* _extract_iban: re.search(self.iban_pattern, text).group(0)
extract_iban(self, text) ==
    LET words == {i \in 1..Len(text) : \E o \in 1..Len(text[i]) : IbanAt(text[i], o)} IN
    IF self.iban_pattern # "iban" \/ words = {} THEN Returned(None)
    ELSE LET word == text[Least(words)]
             o == Least({x \in 1..Len(word) : IbanAt(word, x)}) IN
         Returned(Str(<<LastTwo(word[o])>>
                      \o SubSeq(word, o + 1, o + 2 + UpperRun(word, o + 3))))

\* _extract_description: the first line without a keyword that is longer
\* than ten characters and not a number
extract_description(text) ==
    LET lines == SplitLines(text)
        hits == {i \in 1..Len(lines) :
                    /\ AtomsOf(lines[i]) \cap KeywordRuns = {}
                    /\ LineLen(lines[i]) > 10
                    /\ ~IsDigitLine(lines[i])} IN
    IF hits = {} THEN Returned(None) ELSE Returned(Str(lines[Least(hits)]))

\* extract_data: the eight fields in turn; an exception of any of them
\* leaves the method (except Exception: raise)
extract_data(self, text, confidence_scores) ==
    LET fields == <<extract_vendor_name(text), extract_invoice_number(text),
                    extract_date(self, text), extract_total_amount(text),
                    extract_vat_amount(self, text), extract_vat_percentage(text),
                    extract_iban(self, text), extract_description(text)>>
        failed == {i \in 1..Len(fields) : fields[i].raised} IN
    IF failed # {} THEN Raises(fields[Least(failed)].exception)
    ELSE [raised |-> FALSE, exception |-> NULL,
          value |-> [vendor_name |-> fields[1].value,
                     invoice_number |-> fields[2].value,
                     invoice_date |-> fields[3].value,
                     total_amount |-> fields[4].value,
                     vat_amount |-> fields[5].value,
                     vat_percentage |-> fields[6].value,
                     iban |-> fields[7].value,
                     description |-> fields[8].value,
                     confidence_scores |-> confidence_scores]]

\* extract_data that also drops the first date pattern from the instance
\* (self.date_patterns.pop(0))
ExtractionService_extract_data_popping(i) ==
    /\ requests # <<>>
    /\ extract_call' = [text |-> Head(requests), called |-> TRUE,
                        result |-> extract_data(services[i], Head(requests), CONFIDENCE)]
    /\ earlier_call' = IF extract_call.called /\ ~earlier_call.called
                       THEN extract_call ELSE earlier_call
    /\ requests' = Tail(requests)
    /\ services' = [services EXCEPT ![i].date_patterns =
                       IF @ = <<>> THEN @ ELSE Tail(@)]
    /\ UNCHANGED <<pc, wdoc, loaded, called, werr, resp, ocr_call>>
    /\ UNCHANGED <<bookings, uploaded, svc, yuki_result, yuki_call>>
    /\ UNCHANGED dbvars

\* extraction_service.extract_data(text, confidence_scores) on the instance
\* of worker i, for the text that waits first.  The first call made is kept
\* when a later one is made.
ExtractionService_extract_data(i) ==
    /\ requests # <<>>
    /\ extract_call' = [text |-> Head(requests), called |-> TRUE,
                        result |-> extract_data(services[i], Head(requests), CONFIDENCE)]
    /\ earlier_call' = IF extract_call.called /\ ~earlier_call.called
                       THEN extract_call ELSE earlier_call
    /\ requests' = Tail(requests)
    /\ UNCHANGED <<pc, wdoc, loaded, called, werr, resp, services, ocr_call>>
    /\ UNCHANGED <<bookings, uploaded, svc, yuki_result, yuki_call>>
    /\ UNCHANGED dbvars

NextExtract == \E i \in ServiceIds : ExtractionService_extract_data(i)

\* One recognised text, any text of the vocabulary, waits to be extracted
InitExtract == InitOthers /\ requests \in {<<text>> : text \in Texts}

SpecExtract == InitExtract /\ [][NextExtract]_vars

\* The texts of successive calls: one word of the vocabulary, or an example
RepeatTexts == {<<word>> : word \in Vocabulary} \cup ExampleTexts

\* MaxCalls recognised texts wait to be extracted one after the other
InitRepeat == InitOthers /\ requests \in [1..MaxCalls -> RepeatTexts]

SpecRepeat == InitRepeat /\ [][NextExtract]_vars

\* ---- OCRService (app/services/ocr_service.py) ----

\* What _process_image_object returns for a page: its text and its
\* confidence block
PageTexts == {<< <<"Totaal">>, <<"1", "2", "1", ",", "0", "0">> >>, << <<"BV">> >>}
Overalls == {80, 90, 100}
PageResults ==
    [text : PageTexts, confidence : [overall : Overalls, per_word : {"per_word"}]]

\* The pages pdf2image.convert_from_path gives for a file
PageSeqs == UNION {[1..n -> PageResults] : n \in 0..MaxPages}

\* sum(conf["overall"] for conf in all_confidences)
RECURSIVE SumOverall(_)
SumOverall(confidences) ==
    IF confidences = <<>> THEN 0
    ELSE Head(confidences).overall + SumOverall(Tail(confidences))

RECURSIVE GCD(_, _)
GCD(a, b) == IF b = 0 THEN a ELSE GCD(b, a % b)

\* a / b: the quotient as a fraction in lowest terms, ZeroDivisionError for
\* a zero divisor
Divide(a, b) ==
    IF b = 0 THEN Raises("ZeroDivisionError")
    ELSE Returned([num |-> a \div GCD(a, b), den |-> b \div GCD(a, b)])

\* "\n\n".join(all_text)
RECURSIVE Join(_)
Join(texts) ==
    IF texts = <<>> THEN <<>>
    ELSE IF Len(texts) = 1 THEN texts[1]
    ELSE texts[1] \o <<NL, NL>> \o Join(Tail(texts))

\* f"page_{i+1}" for the enumerate index i
PageKey(i) == "page_" \o ToString(i + 1)

\* _process_pdf with the last page's score as the overall score
process_pdf_last_page(pages) ==
    IF pages = <<>> THEN Raises("IndexError")
    ELSE [raised |-> FALSE, exception |-> NULL,
          value |-> [text |-> Join([i \in 1..Len(pages) |-> pages[i].text]),
                     confidence |->
                        [overall |-> Divide(pages[Len(pages)].confidence.overall, 1).value,
                         per_page |-> [k \in {PageKey(i) : i \in 0..(Len(pages) - 1)} |->
                                          pages[Len(pages)].confidence]]]]

\* _process_pdf: the page results are collected, the texts joined, the
\* overall scores averaged; an exception leaves the method (except: raise)
process_pdf(pages) ==
    LET all_text == [i \in 1..Len(pages) |-> pages[i].text]
        all_confidences == [i \in 1..Len(pages) |-> pages[i].confidence]
        overall == Divide(SumOverall(all_confidences), Len(all_confidences)) IN
    IF overall.raised THEN overall
    ELSE [raised |-> FALSE, exception |-> NULL,
          value |-> [text |-> Join(all_text),
                     confidence |->
                        [overall |-> overall.value,
                         per_page |-> [k \in {PageKey(i) : i \in 0..(Len(pages) - 1)} |->
                                          all_confidences[
                                             CHOOSE i \in 1..Len(pages) : PageKey(i - 1) = k]]]]]

\* ocr_service._process_pdf(file_path) on a file of the given pages
OCRService_process_pdf(pages) ==
    /\ ocr_call' = [pages |-> pages, called |-> TRUE, result |-> process_pdf(pages)]
    /\ UNCHANGED <<pc, wdoc, loaded, called, werr, resp>>
    /\ UNCHANGED <<services, requests, extract_call, earlier_call>>
    /\ UNCHANGED <<bookings, uploaded, svc, yuki_result, yuki_call>>
    /\ UNCHANGED dbvars

NextOcr == \E pages \in PageSeqs : OCRService_process_pdf(pages)

SpecOcr == Init /\ [][NextOcr]_vars

Next ==
    \/ \E f \in LifecycleNames, c \in LifecycleContents : upload_document_endpoint(f, c)
    \/ \E w \in Workers, d \in DocIds : process_document_query(w, d)
    \/ \E w \in Workers : process_document_begin(w)
    \/ \E w \in Workers : process_document_refresh(w)
    \/ \E w \in Workers, ocr \in OcrOutcomes : process_document_ocr(w, ocr)
    \/ \E w \in Workers : process_document_except(w)
    \/ \E w \in Workers, d \in DocIds : validate_document_query(w, d)
    \/ \E w \in Workers, v \in ValidationPayloads : validate_document_commit(w, v)
    \/ \E w \in Workers, d \in DocIds : upload_to_yuki_query(w, d)
    \/ \E w \in Workers, a \in RequestAttempts : upload_to_yuki_init(w, a)
    \/ \E w \in Workers, up \in UploadOutcomes, bk \in BookingOutcomes :
          upload_to_yuki_submit(w, up, bk)
    \/ \E w \in Workers : upload_to_yuki_except(w)

Spec == Init /\ [][Next]_vars

\* The intake and process handlers alone
NextProcess ==
    \/ \E f \in LifecycleNames, c \in LifecycleContents : upload_document_endpoint(f, c)
    \/ \E w \in Workers, d \in DocIds : process_document_query(w, d)
    \/ \E w \in Workers : process_document_begin(w)
    \/ \E w \in Workers : process_document_refresh(w)
    \/ \E w \in Workers, ocr \in OcrOutcomes : process_document_ocr(w, ocr)
    \/ \E w \in Workers : process_document_except(w)

\* A handler that can take its next step takes it, when the step is local or
\* a database statement.  The step that waits for the recognition to return
\* is not among them: pytesseract.image_to_data and
\* pdf2image.convert_from_path are called without a timeout
\* (ocr_service.py:39, 75-79), so nothing makes the call return.
FairProcess ==
    \A w \in Workers :
        /\ WF_vars(process_document_begin(w))
        /\ WF_vars(process_document_refresh(w))
        /\ WF_vars(process_document_except(w))

SpecProcess == Init /\ [][NextProcess]_vars /\ FairProcess

\* A caller that drives a YukiService instance directly
NextYuki ==
    \/ \E a \in AttemptSeqs, n \in RetryBudgets : YukiService_init(a, n, 0)
    \/ \E op \in Queries, ext \in QueryOutcomes : YukiService_query(op, ext)
    \/ \E m \in MetadataDicts, up \in UploadOutcomes :
          YukiService_upload_document(m, up)
    \/ \E data \in BookingDicts, y \in ExtDocIds, bk \in BookingOutcomes :
          YukiService_create_accounting_entry(data, y, bk)

SpecYuki == Init /\ [][NextYuki]_vars

\* A caller that constructs adapters while an operator may ask to abandon
NextCancel ==
    \E a \in AttemptSeqs, n \in RetryBudgets, c \in CancelRequests :
        YukiService_init(a, n, c)

SpecCancel == Init /\ [][NextCancel]_vars

\* The max_retries of a caller that passes any integer: none, one too few,
\* and the budgets above
AnyBudgets == -1..max_retries

\* A caller that constructs adapters with any budget
NextBudget == \E a \in AttemptSeqs, n \in AnyBudgets : YukiService_init(a, n, 0)

SpecBudget == Init /\ [][NextBudget]_vars

\* Clients that send files of any name and validate the documents
NextIntake ==
    \/ \E f \in Filenames, c \in Contents : upload_document_endpoint(f, c)
    \/ \E w \in Workers, d \in DocIds : validate_document_query(w, d)
    \/ \E w \in Workers, v \in ValidationPayloads : validate_document_commit(w, v)

SpecIntake == Init /\ [][NextIntake]_vars

\* ---- the lifecycle claims ----

DocsNow == 1..Len(documents)

\* The step is taken by worker w's handler
StepBy(w) == pc'[w] # pc[w]

\* The transition table of the lifecycle
TransitionTable ==
    {<<PENDING, PROCESSING>>, <<PROCESSING, EXTRACTED>>, <<EXTRACTED, VALIDATED>>,
     <<VALIDATED, UPLOADED>>, <<UPLOADED, BOOKED>>, <<VALIDATED, BOOKED>>,
     <<ERROR, PROCESSING>>}
    \cup {<<s, ERROR>> : s \in ProcessingStatus \ {BOOKED, ERROR}}

\* C1: every change of a document's persisted status is an edge of the
\* transition table.
C1_StatusFollowsTable ==
    [][\A d \in DocsNow :
          documents'[d].status # documents[d].status
          => <<documents[d].status, documents'[d].status>> \in TransitionTable]_vars

\* The statuses from which each operation's transition is legal, by the
\* position of its handler
LegalPredecessors(position) ==
    IF position = "process_begin" THEN {PENDING, ERROR}
    ELSE IF position = "validate_commit" THEN {EXTRACTED}
    ELSE {VALIDATED}

\* The positions at which a handler attempts its operation's transition
AttemptPositions ==
    {"process_begin", "validate_commit", "book_init", "book_submit", "book_except"}

\* C2: an operation attempted on a document whose status is not a legal
\* predecessor changes no persisted field of any table and is answered with
\* a failure.
C2_IllegalAttemptMutatesNothing ==
    [][\A w \in Workers :
          (/\ StepBy(w)
           /\ pc[w] \in AttemptPositions
           /\ documents[wdoc[w]].status \notin LegalPredecessors(pc[w]))
          => /\ UNCHANGED dbvars
             /\ pc'[w] = "idle" => resp' >= 400]_vars

\* C3: a book operation on a document that is not VALIDATED is rejected
\* before any external call, and the rejection changes neither the status
\* nor the error message of the document.
C3_RejectionLeavesDocument ==
    [][\A w \in Workers :
          (StepBy(w) /\ pc[w] = "book_except" /\ werr[w] = MsgNotValidated)
          => /\ ~called[w]
             /\ documents'[wdoc[w]].status = documents[wdoc[w]].status
             /\ documents'[wdoc[w]].error_message = documents[wdoc[w]].error_message]_vars

\* No handler run ever commits BOOKED or an external id: upload_to_yuki hands
\* the stored dictionary to the adapter, whose calls fail on it before any
\* request is sent.
NeverBooked ==
    \A d \in DocsNow :
        /\ documents[d].status \notin {UPLOADED, BOOKED}
        /\ documents[d].yuki_document_id = NULL
        /\ documents[d].yuki_booking_id = NULL

\* C6: a document that is VALIDATED, UPLOADED or BOOKED has extracted data.
C6_ValidatedHasData ==
    \A d \in DocsNow :
        documents[d].status \in {VALIDATED, UPLOADED, BOOKED}
        => documents[d].extracted_data # NullData

\* str(e) of the failures of the external calls
ExternalFailures == {MsgOcr, MsgConnection, MsgFault, MsgRequests, MsgHttp}

\* C7: when the handler of a failed external call answers, the document is
\* committed with status ERROR and a non-null error message.
C7_ExternalFailureCommitsError ==
    [][\A w \in Workers :
          (/\ StepBy(w)
           /\ pc[w] \in {"process_except", "book_except"}
           /\ werr[w] \in ExternalFailures)
          => /\ resp' = 500
             /\ documents'[wdoc[w]].status = ERROR
             /\ documents'[wdoc[w]].error_message # NULL]_vars

\* C8: every change of a document's status appends exactly one audit entry
\* for that document and leaves the earlier entries as they are.
C8_StatusChangeAudited ==
    [][\A d \in DocsNow :
          documents'[d].status # documents[d].status
          => /\ Len(audit_logs') = Len(audit_logs) + 1
             /\ SubSeq(audit_logs', 1, Len(audit_logs)) = audit_logs
             /\ audit_logs'[Len(audit_logs')].document_id = d]_vars

\* C9: the external system never holds two bookings for the same document.
C9_AtMostOneBooking == \A y \in ExtDocIds : bookings[y] <= 1

\* A handler is between its read of the document and its last commit
InFlight(w) == pc[w] # "idle"

\* C10: no two handlers are in flight on the same document.
C10_OneTransitionInFlight ==
    \A w1 \in Workers, w2 \in Workers :
        (w1 # w2 /\ InFlight(w1) /\ InFlight(w2)) => wdoc[w1] # wdoc[w2]

\* The book handler of worker w takes its submit step, with the external
\* system accepting the upload and the booking
BookAccepted(w) == \E y \in ExtDocIds : upload_to_yuki_submit(w, y, "ok")

\* C15: when a document that was processed and validated is booked and every
\* external call succeeds, the book handler commits BOOKED with an external
\* booking id and answers with success.
C15_ProcessedDocumentBooks ==
    [][\A w \in Workers :
          (/\ pc[w] = "book_submit"
           /\ loaded[w].status = VALIDATED
           /\ loaded[w].extracted_data # NullData
           /\ BookAccepted(w))
          => /\ resp' = 200
             /\ documents'[wdoc[w]].status = BOOKED
             /\ documents'[wdoc[w]].yuki_booking_id # NULL]_vars

\* C16: a successful validate appends one validation record for its document,
\* keeps the earlier records, and leaves the extracted data and the
\* confidence scores of every document as they were.
C16_ValidationAdditive ==
    [][\A w \in Workers :
          (StepBy(w) /\ pc[w] = "validate_commit" /\ resp' = 200)
          => /\ Len(validations') = Len(validations) + 1
             /\ SubSeq(validations', 1, Len(validations)) = validations
             /\ validations'[Len(validations')].document_id = wdoc[w]
             /\ \A d \in DocsNow :
                   /\ documents'[d].extracted_data = documents[d].extracted_data
                   /\ documents'[d].confidence_scores = documents[d].confidence_scores]_vars

\* C16 witness: a document with extracted data and confidence scores that
\* has been validated twice.
C16_Witness ==
    \E d \in DocsNow :
        /\ documents[d].status = VALIDATED
        /\ documents[d].extracted_data \in ExtractedData
        /\ documents[d].confidence_scores = CONFIDENCE
        /\ Len(validations) = MaxValidations
        /\ \A i \in 1..Len(validations) : validations[i].document_id = d

\* ---- the adapter claims ----

\* The latest call built the clients with a budget of at least one attempt
InitCall == yuki_call.op = "init" /\ yuki_call.retries >= 1

\* The first k - 1 outcomes offered to the latest call are transport failures
TransportBefore(k) == \A i \in 1..(k - 1) : yuki_call.offered[i] = "transport"

AdapterOperations == {"upload_document", "create_accounting_entry"} \cup Queries

\* C12: an adapter operation whose request meets a transport failure makes a
\* further attempt after a delay while its budget allows, and raises a
\* connection error only when the budget is used up.
C12_OperationsRetryTransport ==
    (/\ yuki_call.op \in AdapterOperations
     /\ yuki_call.met # <<>>
     /\ yuki_call.met[1] = "transport")
    => /\ yuki_call.retries >= 2
          => (Len(yuki_call.met) >= 2 /\ yuki_call.delays >= 1)
       /\ ~yuki_result.ok => Len(yuki_call.met) = yuki_call.retries

\* str(e) of the permanent failures of the external system, as raised
PermanentFailures == {MsgFault, MsgHttp}

WellFormedBooking(data) ==
    /\ RequiredBookingKeys \cup {"vat_amount", "vat_gl_account"} \subseteq DOMAIN data
    /\ data["date"] = DATETIME
    /\ data["amount"] = DECIMAL
    /\ DictGet(data, "vat_percentage", DECIMAL) = DECIMAL

\* C14: CreateBooking is submitted with two lines, the principal line and
\* then the VAT line, when the VAT amount is non-zero, and with the principal
\* line alone when the VAT amount is zero or null.
C14_BookingLines ==
    (/\ yuki_call.op = "create_accounting_entry"
     /\ WellFormedBooking(yuki_call.data)
     /\ yuki_call.offered = <<"ok">>)
    => LET data == yuki_call.data IN
       /\ yuki_result.ok
       /\ Len(yuki_call.lines) \in {1, 2}
       /\ yuki_call.lines[1].GLAccountCode = data["gl_account"]
       /\ data["vat_amount"] = DECIMAL
          => /\ Len(yuki_call.lines) = 2
             /\ yuki_call.lines[2].GLAccountCode = data["vat_gl_account"]
       /\ data["vat_amount"] \in {ZERO, NULL} => Len(yuki_call.lines) = 1

\* C17: a read-only query that meets a transport failure raises
\* YukiConnectionError, and one that meets any other failure raises that
\* failure unchanged.
C17_QueriesClassifyFailures ==
    (yuki_call.op \in Queries /\ ~yuki_result.ok)
    => /\ yuki_call.met = <<"transport">> => yuki_result.error = MsgConnection
       /\ yuki_call.met = <<"other">> => yuki_result.error = MsgFault

\* ---- the extraction and recognition claims ----

HasDigit(text) == \E i \in 1..Len(text) : \E k \in 1..Len(text[i]) : text[i][k] \in Digits
HasWord(text, words) == \E i \in 1..Len(text) : text[i] \in words
HasLetters(text) == \E i \in 1..Len(text) : \E k \in 1..Len(text[i]) : IsLetters(text[i][k])

\* C18: extract_data raises for no text, and every field that nothing in the
\* text can match (no label of the field, no digit, no letter, no text at
\* all) is null in the record it returns.
C18_ExtractNeverRaises ==
    extract_call.called =>
        LET text == extract_call.text
            data == extract_call.result.value IN
        /\ ~extract_call.result.raised
        /\ ~HasWord(text, InvoiceLabels) => data.invoice_number = None
        /\ ~HasWord(text, TotalLabels) => data.total_amount = None
        /\ ~HasWord(text, VatLabels)
           => (data.vat_amount = None /\ data.vat_percentage = None)
        /\ ~HasDigit(text)
           => /\ data.invoice_date = None /\ data.total_amount = None
              /\ data.vat_amount = None /\ data.vat_percentage = None
              /\ data.iban = None
        /\ ~HasLetters(text) => (data.vendor_name = None /\ data.invoice_number = None)
        /\ text = <<>> => data.description = None

\* C18 witness: a text whose date matches a pattern and is no date of the
\* calendar (31-02-2024), returned with a null date.
C18_Witness ==
    /\ extract_call.called
    /\ extract_call.text = << <<"3", "1", "-", "0", "2", "-", "2", "0", "2", "4">> >>
    /\ ~extract_call.result.raised
    /\ extract_call.result.value.invoice_date = None

\* C19: a call of extract_data returns what the first call made with the
\* same text returned, whichever instances served the two calls and
\* whatever was extracted in between.
C19_ExtractDeterministic ==
    (/\ extract_call.called
     /\ earlier_call.called
     /\ extract_call.text = earlier_call.text)
    => extract_call.result = earlier_call.result

\* C19 witness: the same dated text extracted first and last, another call
\* in between, with the same date both times.
C19_Witness ==
    /\ extract_call.called /\ earlier_call.called
    /\ requests = <<>>
    /\ extract_call.text = earlier_call.text
    /\ extract_call.result.value.invoice_date = Date(<<2024, 2, 1>>)
    /\ earlier_call.result.value.invoice_date = Date(<<2024, 2, 1>>)

\* The sum of the overall scores of the pages
RECURSIVE TotalOverall(_)
TotalOverall(pages) ==
    IF pages = <<>> THEN 0
    ELSE pages[1].confidence.overall + TotalOverall(Tail(pages))

\* Where the text of page i starts in the combined text: after the texts of
\* the pages before it, each followed by two line breaks
RECURSIVE PageOffset(_, _)
PageOffset(pages, i) ==
    IF i = 1 THEN 0
    ELSE PageOffset(pages, i - 1) + Len(pages[i - 1].text) + 2

\* C20: for N >= 1 pages _process_pdf returns the mean of the pages' overall
\* scores, a per-page map of N entries holding page i's block under page
\* index i, and the page texts joined in page order.
C20_ConfidenceAggregation ==
    (ocr_call.called /\ Len(ocr_call.pages) >= 1)
    => LET pages == ocr_call.pages
           N == Len(pages)
           result == ocr_call.result.value IN
       /\ ~ocr_call.result.raised
       /\ result.confidence.overall.num * N
          = TotalOverall(pages) * result.confidence.overall.den
       /\ Cardinality(DOMAIN result.confidence.per_page) = N
       /\ \A i \in 1..N :
             /\ PageKey(i - 1) \in DOMAIN result.confidence.per_page
             /\ result.confidence.per_page[PageKey(i - 1)] = pages[i].confidence
             /\ SubSeq(result.text, PageOffset(pages, i) + 1,
                       PageOffset(pages, i) + Len(pages[i].text)) = pages[i].text
       /\ Len(result.text) = PageOffset(pages, N) + Len(pages[N].text)

\* C20 witness: three pages with overall scores 80, 90 and 100, aggregated
\* to 90 with three per-page entries.
C20_Witness ==
    /\ ocr_call.called
    /\ Len(ocr_call.pages) = 3
    /\ \A i \in 1..3 : ocr_call.pages[i].confidence.overall = 70 + 10 * i
    /\ ocr_call.result.value.confidence.overall = [num |-> 90, den |-> 1]
    /\ Cardinality(DOMAIN ocr_call.result.value.confidence.per_page) = 3

\* ---- the extraction value claims ----

\* A labelled total as written, and the value the text states (None for an
\* amount that is no number)
AmountSamples ==
    {[written |-> <<"1", ".", "2", "3", "4", ",", "5", "6">>,
      states |-> Dec(<<"1", "2", "3", "4", ".", "5", "6">>)],
     [written |-> <<"1", "2", "3", "4", ".", "5", "6">>,
      states |-> Dec(<<"1", "2", "3", "4", ".", "5", "6">>)],
     [written |-> <<"1", "2", ",", "5", ",", "6">>, states |-> None]}

\* C21: a labelled total written 1.234,56 and one written 1234.56 both
\* give exactly 1234.56, and the malformed 12,5,6 gives null; extract_data
\* raises for none of them.
C21_AmountExact ==
    \A sample \in AmountSamples :
        (extract_call.called /\ extract_call.text = << <<"Totaal">>, sample.written >>)
        => /\ ~extract_call.result.raised
           /\ extract_call.result.value.total_amount = sample.states

\* ---- the session and cancellation claims ----

\* C22: the construction of the adapter establishes no session, and an
\* operation that follows one that met a transport failure runs on clients
\* built anew.
C22_LazySessions ==
    [][/\ yuki_call'.op = "init" => yuki_call'.met = <<>>
       /\ (/\ yuki_call.op \in AdapterOperations
           /\ yuki_call.met = <<"transport">>
           /\ yuki_call'.op \in AdapterOperations)
          => svc'.sessions > svc.sessions]_vars

\* C23: when cancellation is requested after attempt k of the construction
\* has failed and before attempt k + 1 starts, attempt k + 1 is not made.
C23_CancelBetweenAttempts ==
    \A k \in 1..max_retries :
        (/\ InitCall
         /\ yuki_call.cancel_after = k
         /\ TransportBefore(k + 1))
        => Len(yuki_call.met) <= k

\* ---- the recognition and timeout claims ----

\* Exceptions of arithmetic, which classify nothing about the input
ArithmeticFaults == {"ZeroDivisionError", "OverflowError", "FloatingPointError"}

\* C24: _process_pdf on a file of zero pages returns no aggregate and raises
\* an exception that is not an arithmetic fault.
C24_ZeroPagesInvalid ==
    (ocr_call.called /\ ocr_call.pages = <<>>)
    => /\ ocr_call.result.raised
       /\ ocr_call.result.exception \notin ArithmeticFaults

\* C25: a process operation that has started terminates, even when the
\* external party never responds.
C25_OperationsTerminate ==
    \A w \in Workers : (pc[w] # "idle") ~> (pc[w] = "idle")

\* ---- the persistence claims ----

\* C27: when a process operation returns, the document it was invoked on
\* is committed as EXTRACTED or as ERROR.
C27_ProcessLeavesNoProcessing ==
    [][\A w \in Workers :
          (pc[w] \in {"process_ocr", "process_except"} /\ pc'[w] = "idle")
          => documents'[wdoc[w]].status \in {EXTRACTED, ERROR}]_vars

\* C28: a document whose status is EXTRACTED has extracted data and
\* confidence scores, and the commit that makes it EXTRACTED is the commit
\* of a process handler's success path, which leaves both in the row.
C28_ExtractedHasData ==
    [][\A d \in 1..Len(documents') :
          documents'[d].status = EXTRACTED
          => /\ documents'[d].extracted_data # NullData
             /\ documents'[d].confidence_scores # NULL
             /\ (d \in DocsNow /\ documents[d].status # EXTRACTED)
                => \E w \in Workers :
                      /\ pc[w] = "process_ocr" /\ wdoc[w] = d
                      /\ pc'[w] = "idle" /\ resp' = 200]_vars

\* C28 witness: a process operation has answered 200 and its document is
\* EXTRACTED with the dictionary and the confidence block stored.
C28_Witness ==
    \E d \in DocsNow :
        /\ documents[d].status = EXTRACTED
        /\ documents[d].extracted_data \in ExtractedData
        /\ documents[d].confidence_scores = CONFIDENCE
        /\ resp = 200

\* ---- the pattern claims ----

\* C29: the VAT amount comes only from a match of the amount pattern (a
\* value with two decimals after a BTW/VAT label) and the VAT percentage only
\* from a match of the percentage pattern (a value followed by '%'): a text
\* with "BTW 21%" and no VAT amount gives a null VAT amount.
C29_VatSeparatePatterns ==
    extract_call.called =>
        LET text == extract_call.text
            data == extract_call.result.value IN
        /\ ~extract_call.result.raised
        /\ data.vat_amount # None => Search("vat_amount", text) # <<>>
        /\ data.vat_percentage # None => Search("vat_rate", text) # <<>>

\* A text whose only date is written in one of the three shapes, and the
\* date it states
DateSamples ==
    {[text |-> << <<"0", "1", "-", "0", "2", "-", "2", "0", "2", "4">> >>,
      states |-> Date(<<2024, 2, 1>>)],
     [text |-> << <<"0", "1", "/", "0", "2", "/", "2", "0", "2", "4">> >>,
      states |-> Date(<<2024, 2, 1>>)],
     [text |-> << <<"2", "0", "2", "4", "-", "0", "2", "-", "0", "1">> >>,
      states |-> Date(<<2024, 2, 1>>)],
     [text |-> << <<"0", "1">>, <<"March">>, <<"2", "0", "2", "4">> >>,
      states |-> Date(<<2024, 3, 1>>)]}

\* C30: a text whose only date is written DD-MM-YYYY, DD/MM/YYYY,
\* YYYY-MM-DD or DD Month YYYY gives that date, and a text without a digit,
\* which holds no date, gives null.
C30_DateShapes ==
    extract_call.called =>
        /\ \A sample \in DateSamples :
              extract_call.text = sample.text
              => extract_call.result.value.invoice_date = sample.states
        /\ ~HasDigit(extract_call.text)
           => extract_call.result.value.invoice_date = None

\* ---------------------------------------------------------------------
\* End-to-end and retry claims
\* ---------------------------------------------------------------------

\* Recognized text of an invoice: a labelled number, a labelled total, a
\* labelled VAT amount, and the percentage on a line of its own
InvoiceSample ==
    << <<"Factuur">>, <<"nummer">>, <<"INV", "-", "0", "0", "1">>, NL,
       <<"Totaal">>, <<"1", "2", "1", ",", "0", "0">>, NL,
       <<"BTW">>, <<"2", "1", ",", "0", "0">>, NL,
       <<"2", "1", "%">> >>

\* C31: the extraction of the invoice text 'Factuur nummer INV-001 / Totaal
\* 121,00 / BTW 21,00 / 21%' gives invoice number INV-001, total 121.00,
\* VAT amount 21.00 and VAT percentage 21
C31_InvoiceExtracted ==
    (extract_call.called /\ extract_call.text = InvoiceSample) =>
        /\ ~extract_call.result.raised
        /\ extract_call.result.value.invoice_number = Str(<<"INV", "-", "0", "0", "1">>)
        /\ extract_call.result.value.total_amount = Dec(<<"1", "2", "1", ".", "0", "0">>)
        /\ extract_call.result.value.vat_amount = Dec(<<"2", "1", ".", "0", "0">>)
        /\ extract_call.result.value.vat_percentage = Dec(<<"2", "1">>)

\* C32: a document in status ERROR leaves it only through the first commit
\* of a process operation on it, which makes it PROCESSING; no other
\* operation changes the status of a document that is in ERROR.
C32_ErrorLeftByProcessOnly ==
    [][\A d \in DocsNow :
          (documents[d].status = ERROR /\ documents'[d].status # ERROR)
          => /\ documents'[d].status = PROCESSING
             /\ \E w \in Workers : pc[w] = "process_begin" /\ wdoc[w] = d]_vars

\* C33: a document whose status is not ERROR has no error message.
C33_MessageOnlyInError ==
    \A d \in DocsNow :
        documents[d].status # ERROR => documents[d].error_message = NULL

\* C34: an intake leaves every earlier document as it was, with its row, its
\* storage path and the bytes stored under that path, and no two documents
\* share a storage path.
C34_IntakeKeepsEarlier ==
    [][Len(documents') = Len(documents) + 1
       => /\ \A d \in DocsNow :
                /\ documents'[d] = documents[d]
                /\ file_paths'[d] = file_paths[d]
                /\ files'[file_paths[d]] = files[file_paths[d]]
          /\ \A d1 \in 1..Len(documents'), d2 \in 1..Len(documents') :
                d1 # d2 => file_paths'[d1] # file_paths'[d2]]_vars

\* C35: a construction of the adapter that returns without raising has
\* built the three clients, whatever max_retries it was given.
C35_ConstructedHasClients ==
    (yuki_call.op = "init" /\ yuki_result.ok) => svc.clients = "clients"

\* ---------------------------------------------------------------------
\* Unknown documents and independence of documents
\* ---------------------------------------------------------------------

\* Worker w asks for document d to be processed, validated or booked
Addressed(w, d) ==
    \/ process_document_query(w, d)
    \/ validate_document_query(w, d)
    \/ upload_to_yuki_query(w, d)

\* C36: a process, validate or book operation on an id that no document
\* has is answered with 404 and changes no table and no stored file.
C36_UnknownIdNotFound ==
    [][\A w \in Workers, d \in DocIds :
          (~Exists(d) /\ Addressed(w, d))
          => /\ resp' = 404
             /\ UNCHANGED dbvars]_vars

\* The document the step of worker w is about: the one its handler holds,
\* or the one it has just looked up
Target(w) == IF pc[w] = "idle" THEN wdoc'[w] ELSE wdoc[w]

\* The validation records of document d among vs
RecordsOf(vs, d) == SelectSeq(vs, LAMBDA v : v.document_id = d)

\* C37: a step of an intake, process, validate or book operation leaves the
\* row (status, error message, extracted data, confidence scores, external
\* ids) and the validation records of every document it is not about as
\* they were.
C37_DocumentsIndependent ==
    [][\A d \in DocsNow :
          (\A w \in Workers : StepBy(w) => Target(w) # d)
          => /\ documents'[d] = documents[d]
             /\ RecordsOf(validations', d) = RecordsOf(validations, d)]_vars

\* C37 witness: two documents on which operations were interleaved: the
\* first was validated, the second failed in processing, and each row shows
\* its own history only.
C37_Witness ==
    /\ Len(documents) = 2
    /\ documents[1].status = VALIDATED /\ documents[1].error_message = NULL
    /\ documents[2].status = ERROR /\ documents[2].error_message # NULL
    /\ RecordsOf(validations, 1) # <<>>
    /\ RecordsOf(validations, 2) = <<>>

====
